---- MODULE Spec2Model ----
(***************************************************************************)
(* Model of the KubeLiteDB controller: the event handlers, the rate        *)
(* limited work queue they feed, Run, the worker loops and the reconcile   *)
(* pass (syncHandler / updateSQLiteInstanceStatus).                        *)
(*                                                                         *)
(* Strings are sequences of one-character strings, so that building a key  *)
(* (MetaNamespaceKeyFunc) and splitting it (SplitMetaNamespaceKey) are     *)
(* computed and not assumed to be inverse to each other.                   *)
(***************************************************************************)
EXTENDS Naturals, Sequences, FiniteSets, TLC

\* ------------------------------------------------------------------ bounds
\* number of worker loops Run is asked to start (the `workers` argument)
WorkerCount == 2

\* number of distinct Spec values external actors write (Spec.Replicas)
MaxSpec == 2

\* a key fails at most this many times in a row in the model
MaxFailures == 2

\* the informer resyncs while the handlers have added the key fewer times
\* than this (SpecTally)
MaxAdds == 3

\* a key fails at most this many times in a row in SpecLimiter
MaxAttempts == 20

\* workqueue.DefaultControllerRateLimiter: the per item delay starts at 5 ms
\* and is capped at 1000 s (in milliseconds)
BaseDelay == 5

MaxDelay == 1000000

Workers == 1..WorkerCount

SpecValues == 1..MaxSpec

\* ------------------------------------------------------------ objects, keys
\* The SQLiteInstance objects of the model, by ObjectMeta namespace and name.
\* The second one carries a name with a "/" in it: the informer interface
\* does not exclude it, and its key cannot be split again.
ObjA == [namespace |-> <<"n">>, name |-> <<"a">>]

ObjBad == [namespace |-> <<"n">>, name |-> <<"a", "/", "b">>]

Objects == {ObjA, ObjBad}

NoObj == [absent |-> TRUE]

NoKey == <<>>

\* Status.Phase of a freshly created object (the zero value of the string)
PhaseEmpty == ""

PhaseRunning == "Running"

\* the phase between no phase (Unknown) and Running in the lifecycle of an
\* object
PhasePending == "Pending"

\* the place of a phase in the order Unknown, Pending, Running
PhaseRank(p) ==
    IF p = PhaseEmpty THEN 0 ELSE IF p = PhasePending THEN 1 ELSE 2

\* cache.MetaNamespaceKeyFunc: namespace + "/" + name, or the bare name when
\* the namespace is empty; an error for a payload that has no ObjectMeta
\* (the DeletedFinalStateUnknown tombstone of a missed delete).
MetaNamespaceKeyFunc(payload) ==
    IF payload.kind # "object"
    THEN [err |-> TRUE, key |-> NoKey]
    ELSE IF Len(payload.meta.namespace) > 0
         THEN [err |-> FALSE,
               key |-> payload.meta.namespace \o <<"/">> \o payload.meta.name]
         ELSE [err |-> FALSE, key |-> payload.meta.name]

\* strings.Split(key, "/")
RECURSIVE SplitSlash(_)
SplitSlash(s) ==
    IF \A i \in 1..Len(s) : s[i] # "/"
    THEN <<s>>
    ELSE LET i == CHOOSE j \in 1..Len(s) :
                      s[j] = "/" /\ \A k \in 1..(j - 1) : s[k] # "/"
         IN  <<SubSeq(s, 1, i - 1)>> \o SplitSlash(SubSeq(s, i + 1, Len(s)))

\* cache.SplitMetaNamespaceKey: one part is a name without namespace, two
\* parts are namespace and name, anything else is an error.
SplitMetaNamespaceKey(key) ==
    LET parts == SplitSlash(key)
    IN  IF Len(parts) = 1
        THEN [err |-> FALSE, namespace |-> <<>>, name |-> parts[1]]
        ELSE IF Len(parts) = 2
             THEN [err |-> FALSE, namespace |-> parts[1], name |-> parts[2]]
             ELSE [err |-> TRUE, namespace |-> <<>>, name |-> <<>>]

ObjectPayload(o) == [kind |-> "object", meta |-> o]

TombstonePayload(o) == [kind |-> "tombstone", meta |-> o]

KeyOf(o) == MetaNamespaceKeyFunc(ObjectPayload(o)).key

Keys == {KeyOf(o) : o \in Objects}

VARIABLES
    \* the work queue (workqueue.Type under the rate limiting queue)
    queue,          \* items in delivery order
    dirty,          \* items that need processing
    processing,     \* items handed out by Get and not yet Done
    shuttingDown,   \* ShutDown was called
    waiting,        \* items the delaying queue holds back until their delay is over
    failures,       \* per item failure count of the rate limiter
    \* the API server and the informer
    store,          \* the objects of the API server
    cache,          \* the informer's local cache, read by the lister
    hasSynced,      \* sqliteInstancesSynced()
    \* Run and the workers
    ctxDone,        \* the context passed to Run is cancelled
    runPC,          \* where Run is
    runErr,         \* Run returned a non-nil error
    wpc,            \* where each worker is
    item,           \* the key a worker got from Get
    snap,           \* the object the lister returned to a worker
    syncErr,        \* syncHandler of the worker returned an error
    pass,           \* what the worker's current (or last) pass did
    \* observation
    wanted,         \* keys handed to workqueue.Add and not delivered since
    extSpec,        \* the Spec external actors wrote last, per object
    tally,          \* how often the handlers, the passes and the retries ran
    backoff         \* the delays the rate limiter chose last, per item

queueVars == <<queue, dirty, processing, shuttingDown, waiting, failures>>

apiVars == <<store, cache, hasSynced>>

runVars == <<ctxDone, runPC, runErr>>

workerVars == <<wpc, item, snap, syncErr, pass>>

obsVars == <<wanted, extSpec, tally, backoff>>

vars == <<queue, dirty, processing, shuttingDown, waiting, failures,
          store, cache, hasSynced, ctxDone, runPC, runErr,
          wpc, item, snap, syncErr, pass, wanted, extSpec, tally, backoff>>

\* The tally of a run in which nothing is counted, and of one in which the
\* calls for the key of the watched object are counted from the start: Add by
\* a handler with the key neither queued nor in flight (addsIdle) or with the
\* key queued or in flight (addsBusy), Get delivering the key to a pass,
\* AddRateLimited, and the 'Synced' event.
NoTally == [on |-> FALSE, addsIdle |-> 0, addsBusy |-> 0, passes |-> 0,
            retries |-> 0, synced |-> 0]

ZeroTally == [NoTally EXCEPT !.on = TRUE]

Tally(field) ==
    IF tally.on THEN [tally EXCEPT ![field] = @ + 1] ELSE tally

\* no delay chosen yet
NoBackoff == [delay |-> 0, prev |-> 0]

\* what the pass a worker is in has done so far
NoPass == [outcome |-> "none", lookups |-> 0, statusCalls |-> 0, synced |-> 0,
           requeued |-> FALSE, forgot |-> FALSE, before |-> 0]

Init ==
    /\ queue = <<>>
    /\ dirty = {}
    /\ processing = {}
    /\ shuttingDown = FALSE
    /\ waiting = {}
    /\ failures = [k \in Keys |-> 0]
    /\ store = [o \in Objects |-> NoObj]
    /\ cache = [o \in Objects |-> NoObj]
    /\ hasSynced = FALSE
    /\ ctxDone = FALSE
    /\ runPC = "wait"
    /\ runErr = FALSE
    /\ wpc = [w \in Workers |-> "idle"]
    /\ item = [w \in Workers |-> NoKey]
    /\ snap = [w \in Workers |-> NoObj]
    /\ syncErr = [w \in Workers |-> FALSE]
    /\ pass = [w \in Workers |-> NoPass]
    /\ wanted = {}
    /\ extSpec = [o \in Objects |-> 0]
    /\ tally = NoTally
    /\ backoff = [k \in Keys |-> NoBackoff]

\* ---------------------------------------------------------- the work queue
\* The queue is client-go's rate limiting queue, built at NewController.
\* Its operations take and return the record of the queue's fields.
TheQueue == [queue |-> queue, dirty |-> dirty, processing |-> processing,
             shuttingDown |-> shuttingDown]

\* workqueue.Add: dropped after ShutDown and when the item is already dirty;
\* otherwise marked dirty, and appended unless it is being processed.
QAdd(q, k) ==
    IF q.shuttingDown \/ k \in q.dirty
    THEN q
    ELSE IF k \in q.processing
         THEN [q EXCEPT !.dirty = @ \cup {k}]
         ELSE [q EXCEPT !.dirty = @ \cup {k}, !.queue = Append(@, k)]

\* workqueue.Get on a non-empty queue: the head moves from the queue and the
\* dirty set into the processing set.
QGet(q) ==
    [q EXCEPT !.queue = Tail(@),
              !.processing = @ \cup {Head(q.queue)},
              !.dirty = @ \ {Head(q.queue)}]

\* workqueue.Done: the item leaves the processing set and is appended again
\* when it was added in the meantime.
QDone(q, k) ==
    IF k \in q.dirty
    THEN [q EXCEPT !.processing = @ \ {k}, !.queue = Append(@, k)]
    ELSE [q EXCEPT !.processing = @ \ {k}]

SetQueue(q) ==
    /\ queue' = q.queue
    /\ dirty' = q.dirty
    /\ processing' = q.processing
    /\ shuttingDown' = q.shuttingDown

\* enqueueSQLiteInstance: derive the key of the payload and Add it; a payload
\* without a key is reported and dropped.
enqueueSQLiteInstance(payload) ==
    LET r == MetaNamespaceKeyFunc(payload)
    IN  IF r.err
        THEN UNCHANGED <<queue, dirty, processing, shuttingDown, wanted, tally>>
        ELSE /\ SetQueue(QAdd(TheQueue, r.key))
             /\ wanted' = wanted \cup {r.key}
             /\ tally' = IF r.key \in dirty \/ r.key \in processing
                         THEN Tally("addsBusy")
                         ELSE Tally("addsIdle")

\* The delaying queue's waiting loop: the delay of a held back item is over
\* and the item is added.
WaitingFire(k) ==
    /\ k \in waiting
    /\ waiting' = waiting \ {k}
    /\ SetQueue(QAdd(TheQueue, k))
    /\ wanted' = wanted \cup {k}
    /\ UNCHANGED <<failures, extSpec, tally, backoff>>
    /\ UNCHANGED <<apiVars, runVars, workerVars>>

\* ------------------------------------------------- API server and informer
\* An external actor creates the object with some Spec.
ExtCreate(o, s) ==
    /\ store[o] = NoObj
    /\ store' = [store EXCEPT ![o] = [spec |-> s, phase |-> PhaseEmpty]]
    /\ extSpec' = [extSpec EXCEPT ![o] = s]
    /\ UNCHANGED <<cache, hasSynced, wanted, tally, backoff>>
    /\ UNCHANGED <<queueVars, runVars, workerVars>>

\* An external actor edits the Spec of the object.
ExtUpdate(o, s) ==
    /\ store[o] # NoObj
    /\ store[o].spec # s
    /\ store' = [store EXCEPT ![o].spec = s]
    /\ extSpec' = [extSpec EXCEPT ![o] = s]
    /\ UNCHANGED <<cache, hasSynced, wanted, tally, backoff>>
    /\ UNCHANGED <<queueVars, runVars, workerVars>>

\* A worker is in syncHandler for o, before the status update or about to
\* send it, and its key may not fail again within the bound.
MustNotFail(o) ==
    \E w \in Workers :
        /\ wpc[w] \in {"sync", "update"}
        /\ item[w] = KeyOf(o)
        /\ failures[KeyOf(o)] >= MaxFailures

\* An external actor deletes the object.
ExtDelete(o) ==
    /\ store[o] # NoObj
    /\ ~MustNotFail(o)
    /\ store' = [store EXCEPT ![o] = NoObj]
    /\ extSpec' = [extSpec EXCEPT ![o] = 0]
    /\ UNCHANGED <<cache, hasSynced, wanted, tally, backoff>>
    /\ UNCHANGED <<queueVars, runVars, workerVars>>

\* The informer has seen a new object: cache it, call AddFunc.
OnAdd(o) ==
    /\ cache[o] = NoObj
    /\ store[o] # NoObj
    /\ cache' = [cache EXCEPT ![o] = store[o]]
    /\ enqueueSQLiteInstance(ObjectPayload(o))
    /\ UNCHANGED <<store, hasSynced, waiting, failures, extSpec, backoff>>
    /\ UNCHANGED <<runVars, workerVars>>

\* OnUpdate, were no UpdateFunc registered.
OnUpdateNotEnqueued(o) ==
    /\ cache[o] # NoObj
    /\ store[o] # NoObj
    /\ cache[o] # store[o]
    /\ cache' = [cache EXCEPT ![o] = store[o]]
    /\ UNCHANGED <<queue, dirty, processing, shuttingDown, wanted, tally>>
    /\ UNCHANGED <<store, hasSynced, waiting, failures, extSpec, backoff>>
    /\ UNCHANGED <<runVars, workerVars>>

\* The informer has seen a changed object: cache it, call UpdateFunc(old, new),
\* which enqueues new.
OnUpdate(o) ==
    /\ cache[o] # NoObj
    /\ store[o] # NoObj
    /\ cache[o] # store[o]
    /\ cache' = [cache EXCEPT ![o] = store[o]]
    /\ enqueueSQLiteInstance(ObjectPayload(o))
    /\ UNCHANGED <<store, hasSynced, waiting, failures, extSpec, backoff>>
    /\ UNCHANGED <<runVars, workerVars>>

\* The informer's periodic resync: UpdateFunc with the cached object as old
\* and new.
OnResync(o) ==
    /\ cache[o] # NoObj
    /\ enqueueSQLiteInstance(ObjectPayload(o))
    /\ UNCHANGED <<store, cache, hasSynced, waiting, failures, extSpec, backoff>>
    /\ UNCHANGED <<runVars, workerVars>>

\* The informer has seen the object go: drop it from the cache, call
\* DeleteFunc with the last known object, or with a tombstone when the delete
\* itself was missed.
OnDelete(o, payload) ==
    /\ cache[o] # NoObj
    /\ store[o] = NoObj
    /\ cache' = [cache EXCEPT ![o] = NoObj]
    /\ enqueueSQLiteInstance(payload)
    /\ UNCHANGED <<store, hasSynced, waiting, failures, extSpec, backoff>>
    /\ UNCHANGED <<runVars, workerVars>>

\* The informer reports its initial list as delivered.
CacheSynced ==
    /\ ~hasSynced
    /\ hasSynced' = TRUE
    /\ UNCHANGED <<store, cache, wanted, extSpec, tally, backoff>>
    /\ UNCHANGED <<queueVars, runVars, workerVars>>

\* The cancellation signal fires.
Cancel ==
    /\ ~ctxDone
    /\ ctxDone' = TRUE
    /\ UNCHANGED <<runPC, runErr, wanted, extSpec, tally, backoff>>
    /\ UNCHANGED <<queueVars, apiVars, workerVars>>

\* ---------------------------------------------------------------------- Run
\* cache.WaitForCacheSync returns true: the informer has synced.
RunCacheSynced ==
    /\ runPC = "wait"
    /\ hasSynced
    /\ runPC' = "launch"
    /\ UNCHANGED <<ctxDone, runErr, wanted, extSpec, tally, backoff>>
    /\ UNCHANGED <<queueVars, apiVars, workerVars>>

\* RunCacheSyncFailed, were Run to go on when the wait fails.
RunCacheSyncFailedIgnored ==
    /\ runPC = "wait"
    /\ ctxDone
    /\ runPC' = "launch"
    /\ UNCHANGED <<ctxDone, runErr, wanted, extSpec, tally, backoff>>
    /\ UNCHANGED <<queueVars, apiVars, workerVars>>

\* cache.WaitForCacheSync returns false, the context is cancelled: Run returns
\* the error, and its deferred ShutDown runs.
RunCacheSyncFailed ==
    /\ runPC = "wait"
    /\ ctxDone
    /\ runPC' = "returned"
    /\ runErr' = TRUE
    /\ shuttingDown' = TRUE
    /\ UNCHANGED <<queue, dirty, processing, waiting, failures>>
    /\ UNCHANGED <<ctxDone, wanted, extSpec, tally, backoff>>
    /\ UNCHANGED <<apiVars, workerVars>>

\* The loop of go wait.UntilWithContext(ctx, c.runWorker, time.Second).
RunStartWorkers ==
    /\ runPC = "launch"
    /\ runPC' = "block"
    /\ wpc' = [w \in Workers |-> "until"]
    /\ UNCHANGED <<item, snap, syncErr, pass>>
    /\ UNCHANGED <<ctxDone, runErr, wanted, extSpec, tally, backoff>>
    /\ UNCHANGED <<queueVars, apiVars>>

\* RunReturn, were ShutDown not deferred.
RunReturnNoShutDown ==
    /\ runPC = "block"
    /\ ctxDone
    /\ runPC' = "returned"
    /\ UNCHANGED <<queue, dirty, processing, shuttingDown, waiting, failures>>
    /\ UNCHANGED <<ctxDone, runErr, wanted, extSpec, tally, backoff>>
    /\ UNCHANGED <<apiVars, workerVars>>

\* <-ctx.Done() is over: Run returns nil, and its deferred ShutDown runs.
RunReturn ==
    /\ runPC = "block"
    /\ ctxDone
    /\ runPC' = "returned"
    /\ shuttingDown' = TRUE
    /\ UNCHANGED <<queue, dirty, processing, waiting, failures>>
    /\ UNCHANGED <<ctxDone, runErr, wanted, extSpec, tally, backoff>>
    /\ UNCHANGED <<apiVars, workerVars>>

\* ------------------------------------------------------------------ workers
\* wait.UntilWithContext finds the context cancelled: the goroutine ends.
UntilStop(w) ==
    /\ wpc[w] = "until"
    /\ ctxDone
    /\ wpc' = [wpc EXCEPT ![w] = "exited"]
    /\ UNCHANGED <<item, snap, syncErr, pass>>
    /\ UNCHANGED <<wanted, extSpec, tally, backoff>>
    /\ UNCHANGED <<queueVars, apiVars, runVars>>

\* wait.UntilWithContext calls runWorker, which calls processNextWorkItem.
UntilCall(w) ==
    /\ wpc[w] = "until"
    /\ ~ctxDone
    /\ wpc' = [wpc EXCEPT ![w] = "get"]
    /\ UNCHANGED <<item, snap, syncErr, pass>>
    /\ UNCHANGED <<wanted, extSpec, tally, backoff>>
    /\ UNCHANGED <<queueVars, apiVars, runVars>>

\* Get, were Done called at once and not deferred to the end of the pass.
GetDoneEarly(w) ==
    /\ wpc[w] = "get"
    /\ queue # <<>>
    /\ SetQueue(QDone(QGet(TheQueue), Head(queue)))
    /\ item' = [item EXCEPT ![w] = Head(queue)]
    /\ pass' = [pass EXCEPT ![w] =
                    [NoPass EXCEPT !.before = failures[Head(queue)]]]
    /\ syncErr' = [syncErr EXCEPT ![w] = FALSE]
    /\ wpc' = [wpc EXCEPT ![w] = "sync"]
    /\ wanted' = wanted \ {Head(queue)}
    /\ tally' = Tally("passes")
    /\ UNCHANGED <<waiting, failures, snap, extSpec, backoff>>
    /\ UNCHANGED <<apiVars, runVars>>

\* processNextWorkItem: Get returns an item.
Get(w) ==
    /\ wpc[w] = "get"
    /\ queue # <<>>
    /\ SetQueue(QGet(TheQueue))
    /\ item' = [item EXCEPT ![w] = Head(queue)]
    /\ pass' = [pass EXCEPT ![w] =
                    [NoPass EXCEPT !.before = failures[Head(queue)]]]
    /\ syncErr' = [syncErr EXCEPT ![w] = FALSE]
    /\ wpc' = [wpc EXCEPT ![w] = "sync"]
    /\ wanted' = wanted \ {Head(queue)}
    /\ tally' = Tally("passes")
    /\ UNCHANGED <<waiting, failures, snap, extSpec, backoff>>
    /\ UNCHANGED <<apiVars, runVars>>

\* processNextWorkItem: Get reports the shut down, the queue being empty;
\* processNextWorkItem returns false and runWorker returns.
GetShutdown(w) ==
    /\ wpc[w] = "get"
    /\ queue = <<>>
    /\ shuttingDown
    /\ wpc' = [wpc EXCEPT ![w] = "until"]
    /\ UNCHANGED <<item, snap, syncErr, pass>>
    /\ UNCHANGED <<wanted, extSpec, tally, backoff>>
    /\ UNCHANGED <<queueVars, apiVars, runVars>>

\* The object the lister finds for namespace and name, if any.
Listed(namespace, name) ==
    {o \in Objects : o.namespace = namespace /\ o.name = name /\ cache[o] # NoObj}

\* SyncBadKey, were syncHandler to return the error of the split.
SyncBadKeyAsError(w) ==
    /\ wpc[w] = "sync"
    /\ SplitMetaNamespaceKey(item[w]).err
    /\ failures[item[w]] < MaxFailures
    /\ pass' = [pass EXCEPT ![w].outcome = "badkey"]
    /\ syncErr' = [syncErr EXCEPT ![w] = TRUE]
    /\ wpc' = [wpc EXCEPT ![w] = "finish"]
    /\ UNCHANGED <<item, snap, wanted, extSpec, tally, backoff>>
    /\ UNCHANGED <<queueVars, apiVars, runVars>>

\* syncHandler: the key does not split; reported, nil returned.
SyncBadKey(w) ==
    /\ wpc[w] = "sync"
    /\ SplitMetaNamespaceKey(item[w]).err
    /\ pass' = [pass EXCEPT ![w].outcome = "badkey"]
    /\ syncErr' = [syncErr EXCEPT ![w] = FALSE]
    /\ wpc' = [wpc EXCEPT ![w] = "finish"]
    /\ UNCHANGED <<item, snap, wanted, extSpec, tally, backoff>>
    /\ UNCHANGED <<queueVars, apiVars, runVars>>

\* SyncNotFound, were syncHandler to return the not-found error.
SyncNotFoundAsError(w) ==
    LET sp == SplitMetaNamespaceKey(item[w])
    IN  /\ wpc[w] = "sync"
        /\ ~sp.err
        /\ Listed(sp.namespace, sp.name) = {}
        /\ failures[item[w]] < MaxFailures
        /\ pass' = [pass EXCEPT ![w].outcome = "notfound",
                                ![w].lookups = @ + 1]
        /\ syncErr' = [syncErr EXCEPT ![w] = TRUE]
        /\ wpc' = [wpc EXCEPT ![w] = "finish"]
        /\ UNCHANGED <<item, snap, wanted, extSpec, tally, backoff>>
        /\ UNCHANGED <<queueVars, apiVars, runVars>>

\* syncHandler: the lister has no such object; reported, nil returned.
SyncNotFound(w) ==
    LET sp == SplitMetaNamespaceKey(item[w])
    IN  /\ wpc[w] = "sync"
        /\ ~sp.err
        /\ Listed(sp.namespace, sp.name) = {}
        /\ pass' = [pass EXCEPT ![w].outcome = "notfound",
                                ![w].lookups = @ + 1]
        /\ syncErr' = [syncErr EXCEPT ![w] = FALSE]
        /\ wpc' = [wpc EXCEPT ![w] = "finish"]
        /\ UNCHANGED <<item, snap, wanted, extSpec, tally, backoff>>
        /\ UNCHANGED <<queueVars, apiVars, runVars>>

\* syncHandler: the lister fails with another error, which is returned.
SyncLookupError(w) ==
    /\ wpc[w] = "sync"
    /\ ~SplitMetaNamespaceKey(item[w]).err
    /\ failures[item[w]] < MaxFailures
    /\ pass' = [pass EXCEPT ![w].outcome = "lookuperr",
                            ![w].lookups = @ + 1]
    /\ syncErr' = [syncErr EXCEPT ![w] = TRUE]
    /\ wpc' = [wpc EXCEPT ![w] = "finish"]
    /\ UNCHANGED <<item, snap, wanted, extSpec, tally, backoff>>
    /\ UNCHANGED <<queueVars, apiVars, runVars>>

\* syncHandler: the lister returns the cached object. (A key at the bound of
\* its failures is not taken into a status update that can only fail: the
\* object is still on the API server, or the informer drops it first.)
SyncFound(w) ==
    LET sp == SplitMetaNamespaceKey(item[w])
    IN  /\ wpc[w] = "sync"
        /\ ~sp.err
        /\ \E o \in Listed(sp.namespace, sp.name) :
               /\ failures[item[w]] >= MaxFailures => store[o] # NoObj
               /\ snap' = [snap EXCEPT ![w] = [obj |-> o, val |-> cache[o]]]
        /\ pass' = [pass EXCEPT ![w].lookups = @ + 1]
        /\ wpc' = [wpc EXCEPT ![w] = "update"]
        /\ UNCHANGED <<item, syncErr, wanted, extSpec, tally, backoff>>
        /\ UNCHANGED <<queueVars, apiVars, runVars>>

\* updateSQLiteInstanceStatus, were it to set the phase on the listed object
\* itself, which the cache holds unless the informer has replaced it.
updateSQLiteInstanceStatusInPlace(c, sn) ==
    [cache |-> IF c[sn.obj] = sn.val
               THEN [c EXCEPT ![sn.obj].phase = PhaseRunning]
               ELSE c,
     request |-> [sn.val EXCEPT !.phase = PhaseRunning]]

\* updateSQLiteInstanceStatus, were the phase it sets to depend on the phase
\* it finds, so that no two status updates in a row ask for the same.
updateSQLiteInstanceStatusToggle(c, sn) ==
    [cache |-> c,
     request |-> [sn.val EXCEPT !.phase = IF sn.val.phase = PhaseRunning
                                          THEN PhasePending
                                          ELSE PhaseRunning]]

\* updateSQLiteInstanceStatus up to the call: the phase is set on a deep copy
\* of the listed object, which becomes the request; the cache, which holds
\* the listed object, is as before.
updateSQLiteInstanceStatus(c, sn) ==
    [cache |-> c, request |-> [sn.val EXCEPT !.phase = PhaseRunning]]

\* The API server's UpdateStatus on an existing object: the status
\* subresource takes the Status of the request and nothing else.
UpdateStatus(st, o, request) ==
    [st EXCEPT ![o].phase = request.phase]

\* UpdateStatusOk, were the call the generic Update, which stores the request.
UpdateStatusOkViaUpdate(w) ==
    LET r == updateSQLiteInstanceStatus(cache, snap[w])
        o == snap[w].obj
    IN  /\ wpc[w] = "update"
        /\ store[o] # NoObj
        /\ cache' = r.cache
        /\ store' = [store EXCEPT ![o] = r.request]
        /\ pass' = [pass EXCEPT ![w].outcome = "synced",
                                ![w].statusCalls = @ + 1,
                                ![w].synced = @ + 1]
        /\ syncErr' = [syncErr EXCEPT ![w] = FALSE]
        /\ wpc' = [wpc EXCEPT ![w] = "finish"]
        /\ tally' = Tally("synced")
        /\ UNCHANGED <<hasSynced, item, snap, wanted, extSpec, backoff>>
        /\ UNCHANGED <<queueVars, runVars>>

\* syncHandler: the status update succeeds, the 'Synced' event is recorded,
\* nil is returned.
UpdateStatusOk(w) ==
    LET r == updateSQLiteInstanceStatus(cache, snap[w])
        o == snap[w].obj
    IN  /\ wpc[w] = "update"
        /\ store[o] # NoObj
        /\ cache' = r.cache
        /\ store' = UpdateStatus(store, o, r.request)
        /\ pass' = [pass EXCEPT ![w].outcome = "synced",
                                ![w].statusCalls = @ + 1,
                                ![w].synced = @ + 1]
        /\ syncErr' = [syncErr EXCEPT ![w] = FALSE]
        /\ wpc' = [wpc EXCEPT ![w] = "finish"]
        /\ tally' = Tally("synced")
        /\ UNCHANGED <<hasSynced, item, snap, wanted, extSpec, backoff>>
        /\ UNCHANGED <<queueVars, runVars>>

\* UpdateStatusFailed, were the 'Synced' event recorded before the error of
\* the status update is looked at.
UpdateStatusFailedWithEvent(w) ==
    LET r == updateSQLiteInstanceStatus(cache, snap[w])
    IN  /\ wpc[w] = "update"
        /\ failures[item[w]] < MaxFailures
        /\ cache' = r.cache
        /\ pass' = [pass EXCEPT ![w].outcome = "statuserr",
                                ![w].statusCalls = @ + 1,
                                ![w].synced = @ + 1]
        /\ syncErr' = [syncErr EXCEPT ![w] = TRUE]
        /\ wpc' = [wpc EXCEPT ![w] = "finish"]
        /\ tally' = Tally("synced")
        /\ UNCHANGED <<store, hasSynced, item, snap, wanted, extSpec, backoff>>
        /\ UNCHANGED <<queueVars, runVars>>

\* syncHandler: the status update fails (the object is gone from the API
\* server, or the call fails otherwise) and the error is returned.
UpdateStatusFailed(w) ==
    LET r == updateSQLiteInstanceStatus(cache, snap[w])
    IN  /\ wpc[w] = "update"
        /\ failures[item[w]] < MaxFailures
        /\ cache' = r.cache
        /\ pass' = [pass EXCEPT ![w].outcome = "statuserr",
                                ![w].statusCalls = @ + 1]
        /\ syncErr' = [syncErr EXCEPT ![w] = TRUE]
        /\ wpc' = [wpc EXCEPT ![w] = "finish"]
        /\ UNCHANGED <<store, hasSynced, item, snap, wanted, extSpec, tally, backoff>>
        /\ UNCHANGED <<queueVars, runVars>>

\* The rate limiter's When: one more failure of the item.
When(f, k) == [f EXCEPT ![k] = @ + 1]

\* The rate limiter's Forget: the failures of the item are forgotten.
Forget(f, k) == [f EXCEPT ![k] = 0]

\* The delay the rate limiter's When chooses for an item that has failed n
\* times before: the base delay doubled n times, capped.
Delay(n) ==
    LET d == BaseDelay * 2^n
    IN  IF d > MaxDelay THEN MaxDelay ELSE d

\* FinishRequeue, were Forget called after AddRateLimited.
FinishRequeueForgets(w) ==
    /\ wpc[w] = "finish"
    /\ syncErr[w]
    /\ failures' = Forget(When(failures, item[w]), item[w])
    /\ waiting' = IF shuttingDown THEN waiting ELSE waiting \cup {item[w]}
    /\ pass' = [pass EXCEPT ![w].requeued = TRUE]
    /\ wpc' = [wpc EXCEPT ![w] = "done"]
    /\ tally' = Tally("retries")
    /\ UNCHANGED <<queue, dirty, processing, shuttingDown>>
    /\ UNCHANGED <<item, snap, syncErr, wanted, extSpec, backoff>>
    /\ UNCHANGED <<apiVars, runVars>>

\* FinishRequeue, were a key that has failed before to be dropped.
FinishRequeueLimited(w) ==
    /\ wpc[w] = "finish"
    /\ syncErr[w]
    /\ failures' = When(failures, item[w])
    /\ waiting' = IF shuttingDown \/ failures[item[w]] >= 1
                  THEN waiting
                  ELSE waiting \cup {item[w]}
    /\ pass' = [pass EXCEPT ![w].requeued = TRUE]
    /\ wpc' = [wpc EXCEPT ![w] = "done"]
    /\ tally' = Tally("retries")
    /\ UNCHANGED <<queue, dirty, processing, shuttingDown>>
    /\ UNCHANGED <<item, snap, syncErr, wanted, extSpec, backoff>>
    /\ UNCHANGED <<apiVars, runVars>>

\* FinishRequeue, were the key handed to Add as well as to AddRateLimited.
FinishRequeueAndAdd(w) ==
    /\ wpc[w] = "finish"
    /\ syncErr[w]
    /\ failures' = When(failures, item[w])
    /\ waiting' = IF shuttingDown THEN waiting ELSE waiting \cup {item[w]}
    /\ SetQueue(QAdd(TheQueue, item[w]))
    /\ pass' = [pass EXCEPT ![w].requeued = TRUE]
    /\ wpc' = [wpc EXCEPT ![w] = "done"]
    /\ tally' = Tally("retries")
    /\ UNCHANGED <<item, snap, syncErr, wanted, extSpec, backoff>>
    /\ UNCHANGED <<apiVars, runVars>>

\* processNextWorkItem: syncHandler returned an error; AddRateLimited(key)
\* counts the failure and has the delaying queue hold the key back, unless
\* the queue is shut down.
FinishRequeue(w) ==
    /\ wpc[w] = "finish"
    /\ syncErr[w]
    /\ failures' = When(failures, item[w])
    /\ waiting' = IF shuttingDown THEN waiting ELSE waiting \cup {item[w]}
    /\ pass' = [pass EXCEPT ![w].requeued = TRUE]
    /\ wpc' = [wpc EXCEPT ![w] = "done"]
    /\ tally' = Tally("retries")
    /\ UNCHANGED <<queue, dirty, processing, shuttingDown>>
    /\ UNCHANGED <<item, snap, syncErr, wanted, extSpec, backoff>>
    /\ UNCHANGED <<apiVars, runVars>>

\* FinishForget, were Forget not called.
FinishWithoutForget(w) ==
    /\ wpc[w] = "finish"
    /\ ~syncErr[w]
    /\ wpc' = [wpc EXCEPT ![w] = "done"]
    /\ UNCHANGED <<queue, dirty, processing, shuttingDown, waiting, failures>>
    /\ UNCHANGED <<item, snap, syncErr, pass, wanted, extSpec, tally, backoff>>
    /\ UNCHANGED <<apiVars, runVars>>

\* processNextWorkItem: syncHandler returned nil; Forget(obj).
FinishForget(w) ==
    /\ wpc[w] = "finish"
    /\ ~syncErr[w]
    /\ failures' = Forget(failures, item[w])
    /\ pass' = [pass EXCEPT ![w].forgot = TRUE]
    /\ wpc' = [wpc EXCEPT ![w] = "done"]
    /\ UNCHANGED <<queue, dirty, processing, shuttingDown, waiting>>
    /\ UNCHANGED <<item, snap, syncErr, wanted, extSpec, tally, backoff>>
    /\ UNCHANGED <<apiVars, runVars>>

\* Done, were it not deferred and missed by the pass that finds no object.
DoneSkippedOnNotFound(w) ==
    /\ wpc[w] = "done"
    /\ IF pass[w].outcome = "notfound"
       THEN UNCHANGED <<queue, dirty, processing, shuttingDown>>
       ELSE SetQueue(QDone(TheQueue, item[w]))
    /\ pass' = [pass EXCEPT ![w] = NoPass]
    /\ wpc' = [wpc EXCEPT ![w] = "get"]
    /\ item' = [item EXCEPT ![w] = NoKey]
    /\ snap' = [snap EXCEPT ![w] = NoObj]
    /\ syncErr' = [syncErr EXCEPT ![w] = FALSE]
    /\ UNCHANGED <<waiting, failures, wanted, extSpec, tally, backoff>>
    /\ UNCHANGED <<apiVars, runVars>>

\* Done, were processNextWorkItem to return false after an error.
DoneStopsOnError(w) ==
    /\ wpc[w] = "done"
    /\ SetQueue(QDone(TheQueue, item[w]))
    /\ pass' = [pass EXCEPT ![w] = NoPass]
    /\ wpc' = [wpc EXCEPT ![w] = IF syncErr[w] THEN "until" ELSE "get"]
    /\ item' = [item EXCEPT ![w] = NoKey]
    /\ snap' = [snap EXCEPT ![w] = NoObj]
    /\ syncErr' = [syncErr EXCEPT ![w] = FALSE]
    /\ UNCHANGED <<waiting, failures, wanted, extSpec, tally, backoff>>
    /\ UNCHANGED <<apiVars, runVars>>

\* Done, were it not deferred and called on the path without error only.
DoneSkippedOnError(w) ==
    /\ wpc[w] = "done"
    /\ IF syncErr[w]
       THEN UNCHANGED <<queue, dirty, processing, shuttingDown>>
       ELSE SetQueue(QDone(TheQueue, item[w]))
    /\ pass' = [pass EXCEPT ![w] = NoPass]
    /\ wpc' = [wpc EXCEPT ![w] = "get"]
    /\ item' = [item EXCEPT ![w] = NoKey]
    /\ snap' = [snap EXCEPT ![w] = NoObj]
    /\ syncErr' = [syncErr EXCEPT ![w] = FALSE]
    /\ UNCHANGED <<waiting, failures, wanted, extSpec, tally, backoff>>
    /\ UNCHANGED <<apiVars, runVars>>

\* processNextWorkItem: the deferred Done(obj); the error, if any, is
\* reported, true is returned and runWorker calls processNextWorkItem again.
Done(w) ==
    /\ wpc[w] = "done"
    /\ SetQueue(QDone(TheQueue, item[w]))
    /\ pass' = [pass EXCEPT ![w] = NoPass]
    /\ wpc' = [wpc EXCEPT ![w] = "get"]
    /\ item' = [item EXCEPT ![w] = NoKey]
    /\ snap' = [snap EXCEPT ![w] = NoObj]
    /\ syncErr' = [syncErr EXCEPT ![w] = FALSE]
    /\ UNCHANGED <<waiting, failures, wanted, extSpec, tally, backoff>>
    /\ UNCHANGED <<apiVars, runVars>>

\* ------------------------------------------------------------ specification
\* Spec: one object, which external actors create, edit and delete at will.
Watched == {ObjA}

WatchedKeys == {KeyOf(o) : o \in Watched}

Next ==
    \/ \E o \in Watched, s \in SpecValues : ExtCreate(o, s)
    \/ \E o \in Watched, s \in SpecValues : ExtUpdate(o, s)
    \/ \E o \in Watched : ExtDelete(o)
    \/ \E o \in Watched : OnAdd(o)
    \/ \E o \in Watched : OnUpdate(o)
    \/ \E o \in Watched : OnResync(o)
    \/ \E o \in Watched :
           \E p \in {ObjectPayload(o), TombstonePayload(o)} : OnDelete(o, p)
    \/ CacheSynced
    \/ Cancel
    \/ \E k \in Keys : WaitingFire(k)
    \/ RunCacheSynced
    \/ RunCacheSyncFailed
    \/ RunStartWorkers
    \/ RunReturn
    \/ \E w \in Workers : UntilStop(w)
    \/ \E w \in Workers : UntilCall(w)
    \/ \E w \in Workers : Get(w)
    \/ \E w \in Workers : GetShutdown(w)
    \/ \E w \in Workers : SyncNotFound(w)
    \/ \E w \in Workers : SyncLookupError(w)
    \/ \E w \in Workers : SyncFound(w)
    \/ \E w \in Workers : UpdateStatusOk(w)
    \/ \E w \in Workers : UpdateStatusFailed(w)
    \/ \E w \in Workers : FinishRequeue(w)
    \/ \E w \in Workers : FinishForget(w)
    \/ \E w \in Workers : Done(w)

Spec == Init /\ [][Next]_vars

\* SpecKeys: both objects, the second with the key that does not split. The
\* objects are created with one Spec value and not edited; the first is
\* deleted and created again, the second stays.
NextKeys ==
    \/ \E o \in Objects : ExtCreate(o, 1)
    \/ \E o \in Watched : ExtDelete(o)
    \/ \E o \in Objects : OnAdd(o)
    \/ \E o \in Objects : OnUpdate(o)
    \/ \E o \in Watched :
           \E p \in {ObjectPayload(o), TombstonePayload(o)} : OnDelete(o, p)
    \/ CacheSynced
    \/ Cancel
    \/ \E k \in Keys : WaitingFire(k)
    \/ RunCacheSynced
    \/ RunCacheSyncFailed
    \/ RunStartWorkers
    \/ RunReturn
    \/ \E w \in Workers : UntilStop(w)
    \/ \E w \in Workers : UntilCall(w)
    \/ \E w \in Workers : Get(w)
    \/ \E w \in Workers : GetShutdown(w)
    \/ \E w \in Workers : SyncBadKey(w)
    \/ \E w \in Workers : SyncNotFound(w)
    \/ \E w \in Workers : SyncLookupError(w)
    \/ \E w \in Workers : SyncFound(w)
    \/ \E w \in Workers : UpdateStatusOk(w)
    \/ \E w \in Workers : UpdateStatusFailed(w)
    \/ \E w \in Workers : FinishRequeue(w)
    \/ \E w \in Workers : FinishForget(w)
    \/ \E w \in Workers : Done(w)

SpecKeys == Init /\ [][NextKeys]_vars

\* The steps of one worker goroutine, of Run and of the informer, for the
\* fairness of their scheduling.
Worker(w) ==
    \/ UntilStop(w) \/ UntilCall(w) \/ Get(w) \/ GetShutdown(w)
    \/ SyncBadKey(w) \/ SyncNotFound(w) \/ SyncLookupError(w) \/ SyncFound(w)
    \/ UpdateStatusOk(w) \/ UpdateStatusFailed(w)
    \/ FinishRequeue(w) \/ FinishForget(w) \/ Done(w)

RunStep == RunCacheSynced \/ RunCacheSyncFailed \/ RunStartWorkers \/ RunReturn

Informer(o) ==
    \/ OnAdd(o) \/ OnUpdate(o)
    \/ \E p \in {ObjectPayload(o), TombstonePayload(o)} : OnDelete(o, p)

\* FairSpec: one object, created with one Spec value, deleted and created
\* again, its status written by the controller. Every goroutine that can take
\* a step keeps being scheduled: the workers, Run, the delaying queue's
\* waiting loop and the informer.
NextLive ==
    \/ \E o \in Watched : ExtCreate(o, 1)
    \/ \E o \in Watched : ExtDelete(o)
    \/ \E o \in Watched : OnAdd(o)
    \/ \E o \in Watched : OnUpdate(o)
    \/ \E o \in Watched :
           \E p \in {ObjectPayload(o), TombstonePayload(o)} : OnDelete(o, p)
    \/ CacheSynced
    \/ Cancel
    \/ \E k \in Keys : WaitingFire(k)
    \/ RunCacheSynced
    \/ RunCacheSyncFailed
    \/ RunStartWorkers
    \/ RunReturn
    \/ \E w \in Workers : UntilStop(w)
    \/ \E w \in Workers : UntilCall(w)
    \/ \E w \in Workers : Get(w)
    \/ \E w \in Workers : GetShutdown(w)
    \/ \E w \in Workers : SyncNotFound(w)
    \/ \E w \in Workers : SyncLookupError(w)
    \/ \E w \in Workers : SyncFound(w)
    \/ \E w \in Workers : UpdateStatusOk(w)
    \/ \E w \in Workers : UpdateStatusFailed(w)
    \/ \E w \in Workers : FinishRequeue(w)
    \/ \E w \in Workers : FinishForget(w)
    \/ \E w \in Workers : Done(w)

Fairness ==
    /\ \A w \in Workers : WF_vars(Worker(w))
    /\ WF_vars(RunStep)
    /\ \A k \in Keys : WF_vars(WaitingFire(k))
    /\ \A o \in Watched : WF_vars(Informer(o))

FairSpec == Init /\ [][NextLive]_vars /\ Fairness

\* SpecTally: one object, created once and neither edited nor deleted, a
\* controller that is not cancelled, a lister that does not fail; the calls
\* for the object's key are counted. The informer resyncs while the handlers
\* have added the key fewer than MaxAdds times.
InitTally ==
    /\ queue = <<>>
    /\ dirty = {}
    /\ processing = {}
    /\ shuttingDown = FALSE
    /\ waiting = {}
    /\ failures = [k \in Keys |-> 0]
    /\ store = [o \in Objects |-> NoObj]
    /\ cache = [o \in Objects |-> NoObj]
    /\ hasSynced = FALSE
    /\ ctxDone = FALSE
    /\ runPC = "wait"
    /\ runErr = FALSE
    /\ wpc = [w \in Workers |-> "idle"]
    /\ item = [w \in Workers |-> NoKey]
    /\ snap = [w \in Workers |-> NoObj]
    /\ syncErr = [w \in Workers |-> FALSE]
    /\ pass = [w \in Workers |-> NoPass]
    /\ wanted = {}
    /\ extSpec = [o \in Objects |-> 0]
    /\ tally = ZeroTally
    /\ backoff = [k \in Keys |-> NoBackoff]

HandlerAdds == tally.addsIdle + tally.addsBusy

NextTally ==
    \/ \E o \in Watched : ExtCreate(o, 1)
    \/ \E o \in Watched : OnAdd(o)
    \/ \E o \in Watched : OnUpdate(o)
    \/ \E o \in Watched : HandlerAdds < MaxAdds /\ OnResync(o)
    \/ CacheSynced
    \/ \E k \in Keys : WaitingFire(k)
    \/ RunCacheSynced
    \/ RunStartWorkers
    \/ \E w \in Workers : UntilCall(w)
    \/ \E w \in Workers : Get(w)
    \/ \E w \in Workers : SyncFound(w)
    \/ \E w \in Workers : UpdateStatusOk(w)
    \/ \E w \in Workers : UpdateStatusFailed(w)
    \/ \E w \in Workers : FinishRequeue(w)
    \/ \E w \in Workers : FinishForget(w)
    \/ \E w \in Workers : Done(w)

SpecTally == InitTally /\ [][NextTally]_vars

\* SpecLimiter: the rate limiter of the queue by itself, under the calls
\* processNextWorkItem makes: AddRateLimited after a failed pass, which asks
\* When for the delay, and Forget after a pass without error.
\* LimiterWhen, were the queue built with a rate limiter without a cap.
LimiterWhenUncapped(k) ==
    /\ failures[k] < MaxAttempts
    /\ failures' = When(failures, k)
    /\ backoff' = [backoff EXCEPT ![k] = [delay |-> BaseDelay * 2^failures[k],
                                          prev |-> backoff[k].delay]]
    /\ UNCHANGED <<queue, dirty, processing, shuttingDown, waiting>>
    /\ UNCHANGED <<wanted, extSpec, tally>>
    /\ UNCHANGED <<apiVars, runVars, workerVars>>

\* AddRateLimited: the rate limiter's When counts the failure and chooses the
\* delay.
LimiterWhen(k) ==
    /\ failures[k] < MaxAttempts
    /\ failures' = When(failures, k)
    /\ backoff' = [backoff EXCEPT ![k] = [delay |-> Delay(failures[k]),
                                          prev |-> backoff[k].delay]]
    /\ UNCHANGED <<queue, dirty, processing, shuttingDown, waiting>>
    /\ UNCHANGED <<wanted, extSpec, tally>>
    /\ UNCHANGED <<apiVars, runVars, workerVars>>

\* Forget: the failures of the item and with them its delays are forgotten.
LimiterForget(k) ==
    /\ failures[k] > 0
    /\ failures' = Forget(failures, k)
    /\ backoff' = [backoff EXCEPT ![k] = NoBackoff]
    /\ UNCHANGED <<queue, dirty, processing, shuttingDown, waiting>>
    /\ UNCHANGED <<wanted, extSpec, tally>>
    /\ UNCHANGED <<apiVars, runVars, workerVars>>

NextLimiter ==
    \/ \E k \in Keys : LimiterWhen(k)
    \/ \E k \in Keys : LimiterForget(k)

SpecLimiter == Init /\ [][NextLimiter]_vars

\* FairConverge: one object, created once and neither edited nor deleted,
\* no resync; the calls for its key are counted; the goroutines are scheduled
\* as in FairSpec.
NextConverge ==
    \/ \E o \in Watched : ExtCreate(o, 1)
    \/ \E o \in Watched : OnAdd(o)
    \/ \E o \in Watched : OnUpdate(o)
    \/ CacheSynced
    \/ Cancel
    \/ \E k \in Keys : WaitingFire(k)
    \/ RunCacheSynced
    \/ RunCacheSyncFailed
    \/ RunStartWorkers
    \/ RunReturn
    \/ \E w \in Workers : UntilStop(w)
    \/ \E w \in Workers : UntilCall(w)
    \/ \E w \in Workers : Get(w)
    \/ \E w \in Workers : GetShutdown(w)
    \/ \E w \in Workers : SyncLookupError(w)
    \/ \E w \in Workers : SyncFound(w)
    \/ \E w \in Workers : UpdateStatusOk(w)
    \/ \E w \in Workers : UpdateStatusFailed(w)
    \/ \E w \in Workers : FinishRequeue(w)
    \/ \E w \in Workers : FinishForget(w)
    \/ \E w \in Workers : Done(w)

FairConverge == InitTally /\ [][NextConverge]_vars /\ Fairness

TypeOK ==
    /\ dirty \subseteq Keys
    /\ processing \subseteq Keys
    /\ waiting \subseteq Keys
    /\ \A k \in Keys : failures[k] \in 0..MaxAttempts
    /\ \A k \in Keys : backoff[k].delay \in 0..MaxDelay
    /\ \A w \in Workers :
           wpc[w] \in {"idle", "until", "get", "sync", "update", "finish",
                       "done", "exited"}

\* a worker is inside processNextWorkItem with an item, between Get and Done
InPass(w) == wpc[w] \in {"sync", "update", "finish", "done"}

\* a worker is inside the loop of runWorker
InLoop(w) == wpc[w] = "get" \/ InPass(w)

\* ------------------------------------------------------------------- claims
\* C1: no two workers are between Get and Done for the same key at the same
\* time.
C1_MutualExclusion ==
    \A w1 \in Workers, w2 \in Workers :
        (w1 # w2 /\ InPass(w1) /\ InPass(w2)) => item[w1] # item[w2]

\* a worker is in a pass for a key that was added again meanwhile, and
\* another worker waits in Get
C1_Witness ==
    \E w1 \in Workers, w2 \in Workers :
        /\ w1 # w2
        /\ InPass(w1)
        /\ item[w1] \in dirty
        /\ wpc[w2] = "get"

\* C2: once the workers run, a key handed to Add is delivered by Get to a
\* worker, whose pass for it starts, unless the controller is cancelled.
C2_NoLostWakeup ==
    \A k \in WatchedKeys :
        (k \in wanted /\ runPC = "block")
            ~> ((\E w \in Workers : wpc[w] = "sync" /\ item[w] = k) \/ ctxDone)

\* a key is added while a worker is in a pass for it
C2_Witness ==
    \E w \in Workers :
        /\ InPass(w)
        /\ item[w] \in wanted
        /\ item[w] \in processing
        /\ ~ctxDone

\* C3: a pass that finds no object in the cache makes no status update,
\* records no event, does not requeue the key, forgets it, and ends with Done.
C3_NotFound ==
    [][\A w \in Workers :
          /\ pass'[w].outcome = "notfound" =>
                 /\ pass'[w].statusCalls = 0
                 /\ pass'[w].synced = 0
                 /\ ~pass'[w].requeued
                 /\ wpc'[w] \in {"finish", "done"}
                 /\ wpc'[w] = "done" => pass'[w].forgot
          /\ (pass[w].outcome = "notfound" /\ wpc'[w] # wpc[w]) =>
                 \/ /\ wpc[w] = "finish"
                    /\ wpc'[w] = "done"
                    /\ waiting' = waiting
                 \/ /\ wpc[w] = "done"
                    /\ wpc'[w] = "get"
                    /\ item[w] \notin processing'
                    /\ waiting' = waiting
      ]_vars

\* a pass that found no object has forgotten the key and is about to call Done
C3_Witness ==
    \E w \in Workers :
        /\ wpc[w] = "done"
        /\ pass[w].outcome = "notfound"
        /\ pass[w].forgot

\* C4: a pass that failed with a lookup error or a status update error has
\* called AddRateLimited and not Forget, and the failure count of its key is
\* one higher than when the pass began.
C4_TransientRequeued ==
    \A w \in Workers :
        (wpc[w] = "done" /\ pass[w].outcome \in {"lookuperr", "statuserr"}) =>
            /\ pass[w].requeued
            /\ ~pass[w].forgot
            /\ failures[item[w]] = pass[w].before + 1

\* a pass failed for a key that had failed before
C4_Witness ==
    \E w \in Workers :
        /\ wpc[w] = "done"
        /\ pass[w].outcome \in {"lookuperr", "statuserr"}
        /\ pass[w].before >= 1
        /\ failures[item[w]] = pass[w].before + 1

\* C5: a pass that ended in a transient error is followed by another pass for
\* the key, unless the controller is cancelled.
C5_NeverGivesUp ==
    \A k \in WatchedKeys :
        (\E w \in Workers : wpc[w] = "done" /\ item[w] = k /\ pass[w].requeued)
            ~> ((\E v \in Workers : wpc[v] = "sync" /\ item[v] = k) \/ ctxDone)

\* a key that has failed before is in a pass again
C5_Witness ==
    \E w \in Workers :
        /\ wpc[w] = "sync"
        /\ failures[item[w]] >= 1
        /\ ~ctxDone

\* C6: when Run has returned, no worker is in processNextWorkItem with an
\* item.
C6_RunWaitsForWorkers ==
    runPC = "returned" => \A w \in Workers : ~InPass(w)

\* C7: when Run returns and the context is cancelled with the cache not
\* synced, Run returns an error; and when Run returns an error no worker was
\* started and no item is taken from the queue.
C7_StartupFailure ==
    /\ (runPC = "returned" /\ ctxDone /\ ~hasSynced) => runErr
    /\ (runPC = "returned" /\ runErr) =>
           /\ \A w \in Workers : wpc[w] = "idle"
           /\ processing = {}

\* Run has returned the error with the cache not synced and a key in the queue
C7_Witness ==
    /\ runPC = "returned"
    /\ runErr
    /\ ~hasSynced
    /\ queue # <<>>

\* C8: whatever its item's outcome, a worker that calls Done goes on to Get;
\* a worker leaves the loop of runWorker only from Get, the queue shut down;
\* and a step of a worker in a pass moves no other worker.
C8_Contained ==
    [][\A w \in Workers :
          /\ (wpc[w] = "finish" /\ wpc'[w] # "finish") => wpc'[w] = "done"
          /\ (wpc[w] = "done" /\ wpc'[w] # "done") => wpc'[w] = "get"
          /\ (InLoop(w) /\ ~InLoop(w)') =>
                 (wpc[w] = "get" /\ shuttingDown /\ queue = <<>>)
          /\ (InPass(w) /\ wpc'[w] # wpc[w]) =>
                 \A v \in Workers \ {w} : wpc'[v] = wpc[v]
      ]_vars

\* one worker is about to call Done for the key that does not split while
\* another is about to call Done after a failed status update
C8_Witness ==
    \E w \in Workers, v \in Workers :
        /\ wpc[w] = "done"
        /\ pass[w].outcome = "badkey"
        /\ wpc[v] = "done"
        /\ pass[v].outcome = "statuserr"

\* C9: the Spec of every object of the API server is the one external actors
\* wrote last.
C9_SpecUntouched ==
    \A o \in Objects : store[o] # NoObj => store[o].spec = extSpec[o]

\* a status update has succeeded with a request whose Spec is older than the
\* Spec of the API server's object
C9_Witness ==
    \E w \in Workers :
        /\ wpc[w] = "finish"
        /\ pass[w].outcome = "synced"
        /\ store[snap[w].obj] # NoObj
        /\ store[snap[w].obj].phase = PhaseRunning
        /\ store[snap[w].obj].spec # snap[w].val.spec

\* C10: a step of a worker leaves the cache as it is, and the cache changes
\* only by the informer taking over the API server's object.
C10_CacheUnchanged ==
    [][/\ wpc' # wpc => cache' = cache
       /\ cache' # cache =>
              /\ workerVars' = workerVars
              /\ store' = store
              /\ \E o \in Objects :
                     /\ cache'[o] = store[o]
                     /\ \A x \in Objects \ {o} : cache'[x] = cache[x]
      ]_vars

\* a status update has succeeded and the cache still holds the listed object,
\* its phase not set
C10_Witness ==
    \E w \in Workers :
        /\ wpc[w] = "finish"
        /\ pass[w].outcome = "synced"
        /\ cache[snap[w].obj] = snap[w].val
        /\ snap[w].val.phase = PhaseEmpty
        /\ store[snap[w].obj] # NoObj
        /\ store[snap[w].obj].phase = PhaseRunning

\* C11: when the key was added once and its pass has ended with the status
\* update succeeding, every earlier pass for the key was retried once, the
\* successful pass has called Forget, and one 'Synced' event was recorded.
C11_RetriedThenSynced ==
    \A w \in Workers :
        (HandlerAdds = 1 /\ wpc[w] = "done" /\ pass[w].outcome = "synced") =>
            /\ tally.passes = tally.retries + 1
            /\ pass[w].before = tally.retries
            /\ pass[w].forgot
            /\ failures[item[w]] = 0
            /\ tally.synced = 1

\* the key was added once, two passes failed and the third has succeeded
C11_Witness ==
    \E w \in Workers :
        /\ HandlerAdds = 1
        /\ wpc[w] = "done"
        /\ pass[w].outcome = "synced"
        /\ pass[w].statusCalls = 1
        /\ tally.retries = 2
        /\ tally.passes = 3

\* C12: once the context is cancelled Run returns with the queue shut down
\* and every worker that was started leaves its loop; once the queue is shut
\* down no Add marks a key for delivery any more; and a worker that is in a
\* pass leaves it only by calling Done for its item.
C12_CleanShutdown ==
    /\ [](runPC = "returned" => shuttingDown)
    /\ [][shuttingDown => dirty' \subseteq dirty]_vars
    /\ [][\A w \in Workers :
              (InPass(w) /\ ~InPass(w)') =>
                  /\ wpc[w] = "done"
                  /\ wpc'[w] = "get"
                  /\ item[w] \notin processing'
         ]_vars
    /\ ctxDone ~>
           /\ runPC = "returned"
           /\ \A w \in Workers :
                  wpc[w] = "exited" \/ (runErr /\ wpc[w] = "idle")

\* the queue is shut down after a key was handed to Add again, while one
\* worker is in a pass for it and another has left its loop
C12_Witness ==
    \E w \in Workers, v \in Workers :
        /\ shuttingDown
        /\ wpc[w] = "update"
        /\ item[w] \in dirty
        /\ wpc[v] = "exited"

\* C13: when a handler has added the key once with the key neither queued
\* nor in flight and N times with the key queued or in flight, at most N + 1
\* passes for the key have begun.
C13_AtMostNPlusOne ==
    tally.addsIdle = 1 => tally.passes <= tally.addsBusy + 1

\* C13, amended: ... at most N + 1 passes and one more for every
\* AddRateLimited of the key have begun.
C13_AtMostNPlusOneAndRetries ==
    tally.addsIdle = 1 => tally.passes <= tally.addsBusy + 1 + tally.retries

\* the key was added twice while queued or in flight and retried once, and
\* every one of these adds and the retry has led to a pass
C13_Witness ==
    /\ tally.addsIdle = 1
    /\ tally.addsBusy >= 2
    /\ tally.retries >= 1
    /\ tally.passes = tally.addsBusy + 1 + tally.retries

\* C14: the keys marked as processing are the items of the workers that are
\* between Get and Done; a worker comes to call Done only after its pass has
\* called AddRateLimited or Forget, one of the two; the call of Done takes
\* the item out of the processing set, changes neither the failure counts
\* nor the held back keys and leads to the next Get; and no other step takes
\* a key out of the processing set.
C14_DoneOncePerGet ==
    /\ [](processing = {item[w] : w \in {v \in Workers : InPass(v)}})
    /\ [][\A w \in Workers :
              /\ (wpc[w] # "done" /\ wpc'[w] = "done") =>
                     /\ wpc[w] = "finish"
                     /\ pass'[w].requeued # pass'[w].forgot
              /\ (wpc[w] = "done" /\ wpc'[w] # "done") =>
                     /\ wpc'[w] = "get"
                     /\ item[w] \in processing
                     /\ item[w] \notin processing'
                     /\ failures' = failures
                     /\ waiting' = waiting
         ]_vars
    /\ [][\A k \in Keys :
              (k \in processing /\ k \notin processing') =>
                  \E w \in Workers : wpc[w] = "done" /\ item[w] = k /\ wpc'[w] = "get"
         ]_vars

\* a worker has called Done after a failed pass and is at Get again, the key
\* no longer marked, while another is about to call Done for the key that
\* does not split
C14_Witness ==
    \E w \in Workers, v \in Workers :
        /\ wpc[w] = "done"
        /\ pass[w].outcome = "badkey"
        /\ pass[w].forgot
        /\ processing = {item[w]}
        /\ wpc[v] = "get"
        /\ KeyOf(ObjA) \in waiting
        /\ failures[KeyOf(ObjA)] >= 1

\* C15: when a pass has returned without error and its worker is about to
\* call Done, the failure count of the key is zero and the delay of the next
\* AddRateLimited of the key is the base delay.
C15_BackoffReset ==
    \A w \in Workers :
        (wpc[w] = "done" /\ ~syncErr[w]) =>
            /\ failures[item[w]] = 0
            /\ Delay(failures[item[w]]) = BaseDelay

\* a pass has succeeded for a key that had failed before
C15_Witness ==
    \E w \in Workers :
        /\ wpc[w] = "done"
        /\ pass[w].outcome = "synced"
        /\ pass[w].before >= 1
        /\ failures[item[w]] = 0

C17_EventBridge ==
    [][/\ \A o \in Objects :
              cache'[o] # cache[o] =>
                  /\ \/ TheQueue' = QAdd(TheQueue, KeyOf(o))
                     \/ cache'[o] = NoObj /\ TheQueue' = TheQueue
                  /\ <<waiting, failures, store, hasSynced>>' =
                         <<waiting, failures, store, hasSynced>>
                  /\ runVars' = runVars
                  /\ workerVars' = workerVars
       /\ \A k \in Keys :
              (k \notin dirty /\ k \in dirty' /\ waiting' = waiting) =>
                  /\ TheQueue' = QAdd(TheQueue, k)
                  /\ <<failures, store, hasSynced>>' = <<failures, store, hasSynced>>
                  /\ runVars' = runVars
                  /\ workerVars' = workerVars
      ]_vars

\* the object is gone from API server and cache, and its key was added while
\* a worker was in the pass that finds no object
C17_Witness ==
    \E w \in Workers :
        /\ cache[ObjA] = NoObj
        /\ store[ObjA] = NoObj
        /\ pass[w].outcome = "notfound"
        /\ item[w] = KeyOf(ObjA)
        /\ KeyOf(ObjA) \in dirty

\* C18: a pass for a key that does not split looks nothing up, makes no
\* status update and does not hand the key to AddRateLimited; it goes on to
\* Forget and then to Done, which leave the key neither held back nor
\* marked as processing, its failure count zero.
C18_BadKeyPermanent ==
    [][\A w \in Workers :
          /\ pass'[w].outcome = "badkey" =>
                 /\ pass'[w].lookups = 0
                 /\ pass'[w].statusCalls = 0
                 /\ ~pass'[w].requeued
                 /\ snap'[w] = NoObj
                 /\ item'[w] \notin waiting'
                 /\ wpc'[w] \in {"finish", "done"}
                 /\ wpc'[w] = "done" =>
                        pass'[w].forgot /\ failures'[item'[w]] = 0
          /\ (pass[w].outcome = "badkey" /\ wpc'[w] # wpc[w]) =>
                 \/ /\ wpc[w] = "finish"
                    /\ wpc'[w] = "done"
                 \/ /\ wpc[w] = "done"
                    /\ wpc'[w] = "get"
                    /\ item[w] \notin processing'
      ]_vars

\* a pass for the key that does not split has called Forget and is about to
\* call Done; the object the key was derived from is in the cache
C18_Witness ==
    \E w \in Workers :
        /\ wpc[w] = "done"
        /\ pass[w].outcome = "badkey"
        /\ pass[w].forgot
        /\ item[w] = KeyOf(ObjBad)
        /\ cache[ObjBad] # NoObj

\* C19: the phase of an object of the API server changes only in the step
\* of a worker whose status update for the object succeeds, and every change
\* takes the phase to the next one in the order Unknown, Pending, Running.
C19_PhaseStateMachine ==
    [][\A o \in Objects :
          (store[o] # NoObj /\ store'[o] # NoObj
              /\ store'[o].phase # store[o].phase) =>
              /\ \E w \in Workers :
                     /\ wpc[w] = "update"
                     /\ snap[w].obj = o
                     /\ wpc'[w] = "finish"
                     /\ pass'[w].outcome = "synced"
              /\ PhaseRank(store'[o].phase) = PhaseRank(store[o].phase) + 1
      ]_vars

\* the object has the phase Running on the API server and in the cache, no
\* key is queued, marked or held back, and no worker holds the object's key
Converged(o) ==
    /\ store[o] # NoObj
    /\ store[o].phase = PhaseRunning
    /\ cache[o] = store[o]
    /\ queue = <<>>
    /\ dirty = {}
    /\ processing = {}
    /\ waiting = {}
    /\ \A w \in Workers : item[w] # KeyOf(o)

====
